---- MODULE Spec2Model ----
(***************************************************************************)
(* Model of the storage / borrow-safety subsystem:                         *)
(*   godot-core/src/storage/single_threaded.rs  (InstanceStorage<T>)       *)
(*   gdext-class/src/obj/base.rs                (Base<T>)                  *)
(* The GdCell (godot_cell::panicking), Obj<T>, the host object system and  *)
(* the teardown entry points are collaborators whose code is not part of   *)
(* the modelled sources; they follow the written specification.            *)
(***************************************************************************)
EXTENDS Integers, Sequences, FiniteSets, TLC

\* ------------------------------------------------------------------ bounds
MaxGuards == 2      \* guards outstanding at a time
MaxBinders == 2     \* captures kept in const_binders
MaxRefNet == 1      \* |on_inc_ref calls - on_dec_ref calls| stays within this (+1 below)

\* godot_ref_count is a u32.  It is kept as two 16-bit halves, value
\* hi * 2^16 + lo, so that 0 .. 2^32 - 1 is represented exactly.
Half == 2 ^ 16
ToU32(n) == [hi |-> n \div Half, lo |-> n % Half]
U32_MAX == [hi |-> Half - 1, lo |-> Half - 1]
U32_ZERO == [hi |-> 0, lo |-> 0]
\* wrapping_add(1) and wrapping_sub(1)
wrapping_inc(x) ==
    IF x.lo = Half - 1
    THEN [hi |-> (x.hi + 1) % Half, lo |-> 0]
    ELSE [x EXCEPT !.lo = @ + 1]
wrapping_dec(x) ==
    IF x.lo = 0
    THEN [hi |-> (x.hi - 1) % Half, lo |-> Half - 1]
    ELSE [x EXCEPT !.lo = @ - 1]

Values == {0, 1}     \* instance values
Sites == {1, 2}      \* call sites captured as backtraces
NoSite == 0 - 1     \* Option::None of mut_binder
NullPtr == 0 - 1    \* null GDNativeObjectPtr
HostId == 7         \* identity token of the one host object
NoVal == 0 - 1

\* Threads of a shared-mode (experimental-threads) run.
Threads == {1, 2, 3}

VARIABLES
    alloc,            \* "none" | "live" | "freed": the InstanceStorage allocation
    user_instance,    \* GdCell<T>: [state, count, value]
    base,             \* Base<T::Base>: [obj, manually_drop]
    lifecycle,        \* cell::Cell<Lifecycle>
    godot_ref_count,  \* cell::Cell<u32>
    mut_binder,       \* Mutex<Option<Backtrace>>: [val, poisoned]
    const_binders,    \* Mutex<Vec<Backtrace>>: [val, poisoned]
    guards,           \* outstanding RefGuard / MutGuard / InaccessibleGuard
    host,             \* the host object: [alive, refcount]
    overflow_checks,  \* build setting: integer overflow panics (TRUE) or wraps
    net,              \* completed on_inc_ref calls minus completed on_dec_ref calls
    dec_at_zero,      \* on_dec_ref was called at count 0
    inst_released,    \* times the user instance was dropped
    handle_released,  \* times the Base handle was released
    pre_swap,         \* value get_inaccessible found in the cell, while its guard is out
    threads,          \* shared mode: per thread, where it is in its call and its capture
    entries,          \* the two teardown entry points: where each is, who saw Alive first
    last              \* outcome of the most recent call

vars == << alloc, user_instance, base, lifecycle, godot_ref_count, mut_binder,
           const_binders, guards, host, overflow_checks, net,
           dec_at_zero, inst_released, handle_released, pre_swap,
           threads, entries, last >>

\* ------------------------------------------------- GdCell (borrow cell)
\* States: Free, Shared (count > 0), Exclusive, Inaccessible.

GdCell_new(v) == [state |-> "Free", count |-> 0, value |-> v]

is_currently_bound(c) == c.state # "Free"

\* acquire_shared: succeeds from Free or Shared, fails while Exclusive/Inaccessible
borrow(c) ==
    IF c.state \in {"Free", "Shared"}
    THEN [ok |-> TRUE, err |-> "None",
          cell |-> [c EXCEPT !.state = "Shared", !.count = @ + 1]]
    ELSE [ok |-> FALSE, err |-> "AlreadyExclusivelyBorrowed", cell |-> c]

\* acquire_exclusive: succeeds only from Free
borrow_mut(c) ==
    IF c.state = "Free"
    THEN [ok |-> TRUE, err |-> "None", cell |-> [c EXCEPT !.state = "Exclusive"]]
    ELSE [ok |-> FALSE, err |-> "AlreadyBorrowed", cell |-> c]

\* make_inaccessible: swaps the live value out for the replacement; the guard
\* keeps the original (stash) and swaps it back on release
make_inaccessible(c, r) ==
    IF c.state = "Free"
    THEN [ok |-> TRUE, err |-> "None", stash |-> c.value,
          cell |-> [c EXCEPT !.state = "Inaccessible", !.value = r]]
    ELSE [ok |-> FALSE, err |-> "AlreadyBorrowed", stash |-> NoVal, cell |-> c]

RefGuard_drop(c) ==
    IF c.count > 1
    THEN [c EXCEPT !.count = @ - 1]
    ELSE [c EXCEPT !.count = 0, !.state = "Free"]

MutGuard_drop(c) == [c EXCEPT !.state = "Free"]

InaccessibleGuard_drop(c, stash) == [c EXCEPT !.state = "Free", !.value = stash]

\* ------------------------------------------------------ host object system
\* decrement_reference is the host's own operation; the object is gone once
\* its count reaches zero.  The host holds the first (and here only) strong
\* reference at construction time.
decrement_reference(h) ==
    [h EXCEPT !.refcount = @ - 1, !.alive = (h.refcount - 1 > 0)]

\* ------------------------------------------------------------- Obj / Base
\* Obj::from_obj_sys wraps the pointer without touching the strong count.
Obj_from_obj_sys(ptr) == [token |-> ptr]

\* Dropping an Obj<T> releases one strong reference of the host object.
Obj_drop(h) == decrement_reference(h)

\* Obj::inner: validated through the host's liveness predicate.
Obj_inner(obj, h) ==
    IF h.alive
    THEN [ok |-> TRUE, err |-> "None", ref |-> obj.token, deref |-> TRUE]
    ELSE [ok |-> FALSE, err |-> "Expired", ref |-> NullPtr, deref |-> FALSE]

NoBase == [obj |-> [token |-> NullPtr], manually_drop |-> TRUE]

from_obj_Owning(obj) == [obj |-> obj, manually_drop |-> FALSE]

\* Base::from_obj: the Obj is wrapped in ManuallyDrop
from_obj(obj) == [obj |-> obj, manually_drop |-> TRUE]

\* Base::from_sys: asserts a non-null pointer, then from_obj(from_obj_sys(ptr))
from_sys(base_ptr) ==
    IF base_ptr = NullPtr
    THEN [ok |-> FALSE, err |-> "NullBasePtr", base |-> NoBase]
    ELSE [ok |-> TRUE, err |-> "None", base |-> from_obj(Obj_from_obj_sys(base_ptr))]

\* Dropping the `base` field: ManuallyDrop never runs the inner destructor.
Base_drop(b, h) == IF b.manually_drop THEN h ELSE Obj_drop(h)

inner_Cached(b, h) ==
    [ok |-> TRUE, err |-> "None", ref |-> b.obj.token, deref |-> TRUE]

\* Base::inner / Base::inner_mut: delegate to the Obj
inner(b, h) == Obj_inner(b.obj, h)

\* ------------------------------------------------------- InstanceStorage
Mutex_new(v) == [val |-> v, poisoned |-> FALSE]

\* A guard dropped while the thread unwinds poisons its mutex.
poison(m) == [m EXCEPT !.poisoned = TRUE]

is_bound_Never(c) == FALSE

is_bound_Always(c) == TRUE

\* InstanceStorage::is_bound
is_bound(c) == is_currently_bound(c)

\* const_binders.retain(|_| self.is_bound()): keeps all or none
retain_bound(log, c) == IF is_bound(c) THEN log ELSE << >>

Outcome(ok, err, c, mb, cb, shown, g) ==
    [ok |-> ok, err |-> err, cell |-> c, mut_binder |-> mb, const_binders |-> cb,
     shown |-> shown, guard |-> g]

NoGuard == [kind |-> "none", site |-> NoSite, stash |-> NoVal]
SharedGuard(bt) == [kind |-> "shared", site |-> bt, stash |-> NoVal]
ExclusiveGuard(bt) == [kind |-> "exclusive", site |-> bt, stash |-> NoVal]
InaccessibleGuard(stash) == [kind |-> "inaccessible", site |-> NoSite, stash |-> stash]

\* A thread outside any call of the storage, holding no guard.
Idle == [pc |-> "idle", bt |-> NoSite, kept |-> 0]

\* Storage::construct
construct(v, b) ==
    [user_instance |-> GdCell_new(v), base |-> b, lifecycle |-> "Alive",
     godot_ref_count |-> ToU32(1), mut_binder |-> Mutex_new(NoSite),
     const_binders |-> Mutex_new(<< >>)]

\* Storage::get.  The panic message locks mut_binder; the guard of that lock
\* is dropped while unwinding.  On success const_binders is locked after the
\* borrow, so a poisoned lock unwinds with the RefGuard already created.
get(c, mb, cb, bt) ==
    LET r == borrow(c) IN
    IF ~r.ok
    THEN IF mb.poisoned
         THEN Outcome(FALSE, "PoisonError", c, mb, cb, NoSite, NoGuard)
         ELSE Outcome(FALSE, r.err, c, poison(mb), cb, mb.val, NoGuard)
    ELSE IF cb.poisoned
         THEN Outcome(FALSE, "PoisonError", RefGuard_drop(r.cell), mb, cb, NoSite, NoGuard)
         ELSE Outcome(TRUE, "None", r.cell, mb, [cb EXCEPT !.val = Append(@, bt)],
                      NoSite, SharedGuard(bt))

get_mut_acquire_Shared(c) == borrow(c)

get_mut_acquire_Unchecked(c) ==
    [ok |-> TRUE, err |-> "None", cell |-> [c EXCEPT !.state = "Exclusive"]]

get_mut_acquire_Stuck(c) == [ok |-> FALSE, err |-> "AlreadyBorrowed", cell |-> c]

\* Storage::get_mut, `self.user_instance.borrow_mut()`
get_mut_acquire(c) == borrow_mut(c)

\* Storage::get_mut.  const_binders is locked first (retain); the panic
\* message locks const_binders and then mut_binder; a successful borrow locks
\* mut_binder to record the backtrace.
get_mut(c, mb, cb, bt) ==
    IF cb.poisoned
    THEN Outcome(FALSE, "PoisonError", c, mb, cb, NoSite, NoGuard)
    ELSE LET cb1 == [cb EXCEPT !.val = retain_bound(@, c)]
             r == get_mut_acquire(c)
         IN  IF ~r.ok
             THEN IF mb.poisoned
                  THEN Outcome(FALSE, "PoisonError", c, mb, poison(cb1), NoSite, NoGuard)
                  ELSE Outcome(FALSE, r.err, c, poison(mb), poison(cb1), mb.val, NoGuard)
             ELSE IF mb.poisoned
                  THEN Outcome(FALSE, "PoisonError", MutGuard_drop(r.cell), mb, cb1,
                               NoSite, NoGuard)
                  ELSE Outcome(TRUE, "None", r.cell, [mb EXCEPT !.val = bt], cb1,
                               NoSite, ExclusiveGuard(bt))

get_inaccessible_acquire_Mut(c, v) ==
    [ok |-> borrow_mut(c).ok, err |-> borrow_mut(c).err, stash |-> c.value,
     cell |-> borrow_mut(c).cell]

\* Storage::get_inaccessible, `self.user_instance.make_inaccessible(value)`
get_inaccessible_acquire(c, v) == make_inaccessible(c, v)

\* Storage::get_inaccessible
get_inaccessible(c, mb, cb, v) ==
    LET r == get_inaccessible_acquire(c, v) IN
    IF ~r.ok
    THEN Outcome(FALSE, r.err, c, mb, cb, NoSite, NoGuard)
    ELSE Outcome(TRUE, "None", r.cell, mb, cb, NoSite, InaccessibleGuard(r.stash))

get_lifecycle(l) == l

\* Storage::set_lifecycle: stores unconditionally
set_lifecycle(old, new) == new

on_inc_ref_Twice(rc, checks) ==
    [ok |-> TRUE, err |-> "None", rc |-> wrapping_inc(wrapping_inc(rc))]

\* StorageRefCounted::on_inc_ref: u32 + 1, panicking or wrapping on overflow
on_inc_ref(rc, checks) ==
    IF rc = U32_MAX /\ checks
    THEN [ok |-> FALSE, err |-> "Overflow", rc |-> rc]
    ELSE [ok |-> TRUE, err |-> "None", rc |-> wrapping_inc(rc)]

\* StorageRefCounted::on_dec_ref: u32 - 1, panicking or wrapping on underflow
on_dec_ref(rc, checks) ==
    IF rc = U32_ZERO /\ checks
    THEN [ok |-> FALSE, err |-> "Overflow", rc |-> rc]
    ELSE [ok |-> TRUE, err |-> "None", rc |-> wrapping_dec(rc)]

\* Drop of a guard, by kind
Guard_drop(c, g) ==
    CASE g.kind = "shared" -> RefGuard_drop(c)
      [] g.kind = "exclusive" -> MutGuard_drop(c)
      [] g.kind = "inaccessible" -> InaccessibleGuard_drop(c, g.stash)

RemoveAt(s, i) == [j \in 1 .. Len(s) - 1 |-> IF j < i THEN s[j] ELSE s[j + 1]]

DropOrder_LifecycleFirst ==
    << "lifecycle", "user_instance", "base", "godot_ref_count", "mut_binder",
       "const_binders" >>

\* Fields of InstanceStorage in declaration order, the order they are
\* dropped in ("Declared after `user_instance`, is dropped last").
DropOrder ==
    << "user_instance", "base", "lifecycle", "godot_ref_count", "mut_binder",
       "const_binders" >>

\* Drop for InstanceStorage: Drop::drop only logs, then the fields go in
\* declaration order.
drop_steps == [i \in 1 .. Len(DropOrder) |-> "drop_" \o DropOrder[i]]

\* Teardown entry (either path): latch, bound check, then the storage is
\* dropped.  steps lists what the entry did, in order.
teardown(l, c) ==
    IF get_lifecycle(l) = "Destroying"
    THEN [ok |-> FALSE, err |-> "DoubleTeardown", lifecycle |-> l, drop |-> FALSE,
          steps |-> << >>]
    ELSE IF is_bound(c)
         THEN [ok |-> FALSE, err |-> "DestroyWhileBound",
               lifecycle |-> set_lifecycle(l, "Destroying"), drop |-> FALSE,
               steps |-> << "set_destroying", "is_bound" >>]
         ELSE [ok |-> TRUE, err |-> "None",
               lifecycle |-> set_lifecycle(l, "Destroying"), drop |-> TRUE,
               steps |-> << "set_destroying", "is_bound" >> \o drop_steps]
\* --------------------------------------------------------------- actions
\* `last` records the most recent call: its name, whether it returned, the
\* fault otherwise, the borrow state and lifecycle it started from, the
\* mutable binder its message rendered, what it handed back, and for the
\* release of an inaccessible guard the value the cell held before the swap
\* (val) and the replacement the release found in the cell (repl), and for a
\* teardown entry the steps it performed.  "-"
\* where the start state is not part of the record.
Last(op, ok, err, pre, life) ==
    [op |-> op, ok |-> ok, err |-> err, pre |-> pre, life |-> life,
     shown |-> NoSite, ref |-> NullPtr, deref |-> FALSE, freed |-> FALSE,
     val |-> NoVal, repl |-> NoVal, steps |-> << >>]

\* The two teardown entry points, neither entered.
Paths == {"host", "ext"}
NoEntries == [pc |-> [p \in Paths |-> "idle"], first |-> "none"]

Init ==
    /\ alloc = "none"
    /\ user_instance = GdCell_new(0)
    /\ base = NoBase
    /\ lifecycle = "Alive"
    /\ godot_ref_count = U32_ZERO
    /\ mut_binder = Mutex_new(NoSite)
    /\ const_binders = Mutex_new(<< >>)
    /\ guards = << >>
    /\ host = [alive |-> TRUE, refcount |-> 1]
    /\ overflow_checks \in BOOLEAN
    /\ net = 0
    /\ dec_at_zero = FALSE
    /\ inst_released = 0
    /\ handle_released = 0
    /\ pre_swap = NoVal
    /\ threads = [t \in Threads |-> Idle]
    /\ entries = NoEntries
    /\ last = Last("init", TRUE, "None", "Free", "Alive")

\* The host constructs the extension instance: Base::from_sys, then
\* Storage::construct.
Construct(v, ptr) ==
    /\ alloc = "none"
    /\ host.alive
    /\ LET b == from_sys(ptr) IN
       IF b.ok
       THEN LET st == construct(v, b.base) IN
            /\ alloc' = "live"
            /\ user_instance' = st.user_instance
            /\ base' = st.base
            /\ lifecycle' = st.lifecycle
            /\ godot_ref_count' = st.godot_ref_count
            /\ mut_binder' = st.mut_binder
            /\ const_binders' = st.const_binders
            /\ last' = Last("construct", TRUE, "None", "Free", "Alive")
       ELSE /\ last' = Last("construct", FALSE, b.err, "Free", "Alive")
            /\ UNCHANGED << entries, alloc, user_instance, base, lifecycle, godot_ref_count,
                            mut_binder, const_binders >>
    /\ UNCHANGED << threads, entries, guards, host, overflow_checks, net, dec_at_zero,
                    inst_released, handle_released,
                    pre_swap >>

\* Applies the outcome of get / get_mut / get_inaccessible to the storage.
Apply(op, o) ==
    /\ o.ok => Len(guards) < MaxGuards
    /\ Len(o.const_binders.val) <= MaxBinders
    /\ user_instance' = o.cell
    /\ mut_binder' = o.mut_binder
    /\ const_binders' = o.const_binders
    /\ guards' = IF o.ok THEN Append(guards, o.guard) ELSE guards
    /\ pre_swap' = IF o.ok /\ op = "get_inaccessible"
                   THEN user_instance.value ELSE pre_swap
    /\ last' = [Last(op, o.ok, o.err, user_instance.state, lifecycle)
                  EXCEPT !.shown = o.shown]
    /\ UNCHANGED << threads, entries, alloc, base, lifecycle, godot_ref_count, host, overflow_checks,
                    net, dec_at_zero, inst_released, handle_released >>

Get(bt) ==
    /\ alloc = "live"
    /\ Apply("get", get(user_instance, mut_binder, const_binders, bt))

GetMut(bt) ==
    /\ alloc = "live"
    /\ Apply("get_mut", get_mut(user_instance, mut_binder, const_binders, bt))

GetInaccessible(v) ==
    /\ alloc = "live"
    /\ Apply("get_inaccessible",
             get_inaccessible(user_instance, mut_binder, const_binders, v))

\* A guard goes out of scope.
Release(i) ==
    /\ alloc = "live"
    /\ i \in 1 .. Len(guards)
    /\ user_instance' = Guard_drop(user_instance, guards[i])
    /\ guards' = RemoveAt(guards, i)
    /\ last' = [Last("release_" \o guards[i].kind, TRUE, "None",
                     user_instance.state, lifecycle)
                  EXCEPT !.val = IF guards[i].kind = "inaccessible"
                                 THEN pre_swap ELSE NoVal,
                         !.repl = IF guards[i].kind = "inaccessible"
                                  THEN user_instance.value ELSE NoVal]
    /\ pre_swap' = IF guards[i].kind = "inaccessible" THEN NoVal ELSE pre_swap
    /\ UNCHANGED << threads, entries, alloc, base, lifecycle, godot_ref_count, mut_binder,
                    const_binders, host, overflow_checks, net, dec_at_zero,
                    inst_released, handle_released >>

\* The holder of the exclusive guard writes the instance (DerefMut).
Write(v) ==
    /\ alloc = "live"
    /\ \E i \in 1 .. Len(guards) : guards[i].kind = "exclusive"
    /\ v # user_instance.value
    /\ user_instance' = [user_instance EXCEPT !.value = v]
    /\ last' = Last("write", TRUE, "None", "-", "-")
    /\ UNCHANGED << threads, entries, alloc, base, lifecycle, godot_ref_count, mut_binder,
                    const_binders, guards, host, overflow_checks, net,
                    dec_at_zero, inst_released, handle_released,
                    pre_swap >>

IsBound ==
    /\ alloc = "live"
    /\ last' = Last("is_bound", is_bound(user_instance), "None", "-", "-")
    /\ UNCHANGED << threads, entries, alloc, user_instance, base, lifecycle, godot_ref_count,
                    mut_binder, const_binders, guards, host, overflow_checks,
                    net, dec_at_zero, inst_released, handle_released,
                    pre_swap >>

SetLifecycle(l) ==
    /\ alloc = "live"
    /\ lifecycle' = set_lifecycle(lifecycle, l)
    /\ last' = Last("set_lifecycle", TRUE, "None", "-", "-")
    /\ UNCHANGED << threads, entries, alloc, user_instance, base, godot_ref_count, mut_binder,
                    const_binders, guards, host, overflow_checks, net,
                    dec_at_zero, inst_released, handle_released,
                    pre_swap >>

OnIncRef ==
    /\ alloc = "live"
    /\ net < MaxRefNet
    /\ LET r == on_inc_ref(godot_ref_count, overflow_checks) IN
       /\ godot_ref_count' = r.rc
       /\ net' = IF r.ok THEN net + 1 ELSE net
       /\ last' = Last("on_inc_ref", r.ok, r.err, "-", "-")
    /\ UNCHANGED << threads, entries, alloc, user_instance, base, lifecycle, mut_binder,
                    const_binders, guards, host, overflow_checks,
                    dec_at_zero, inst_released, handle_released,
                    pre_swap >>

OnDecRef_Destroys ==
    /\ alloc = "live"
    /\ net > 0 - (MaxRefNet + 1)
    /\ LET r == on_dec_ref(godot_ref_count, overflow_checks) IN
       /\ godot_ref_count' = r.rc
       /\ net' = IF r.ok THEN net - 1 ELSE net
       /\ dec_at_zero' = (dec_at_zero \/ godot_ref_count = U32_ZERO)
       /\ lifecycle' = IF r.rc = U32_ZERO THEN "Destroying" ELSE lifecycle
       /\ last' = Last("on_dec_ref", r.ok, r.err, "-", "-")
    /\ UNCHANGED << threads, entries, alloc, user_instance, base, mut_binder,
                    const_binders, guards, host, overflow_checks,
                    inst_released, handle_released,
                    pre_swap >>

OnDecRef ==
    /\ alloc = "live"
    /\ net > 0 - (MaxRefNet + 1)
    /\ LET r == on_dec_ref(godot_ref_count, overflow_checks) IN
       /\ godot_ref_count' = r.rc
       /\ net' = IF r.ok THEN net - 1 ELSE net
       /\ dec_at_zero' = (dec_at_zero \/ godot_ref_count = U32_ZERO)
       /\ last' = Last("on_dec_ref", r.ok, r.err, "-", "-")
    /\ UNCHANGED << threads, entries, alloc, user_instance, base, lifecycle, mut_binder,
                    const_binders, guards, host, overflow_checks,
                    inst_released, handle_released,
                    pre_swap >>

\* The host drops its strong reference of the wrapper object.
HostUnreference ==
    /\ host.alive
    /\ host' = decrement_reference(host)
    /\ last' = Last("host_unreference", TRUE, "None", "-", "-")
    /\ UNCHANGED << threads, entries, alloc, user_instance, base, lifecycle, godot_ref_count,
                    mut_binder, const_binders, guards, overflow_checks, net,
                    dec_at_zero, inst_released, handle_released,
                    pre_swap >>

\* Extension code reaches the host wrapper through the handle.
BaseInner ==
    /\ alloc = "live"
    /\ LET r == inner(base, host) IN
       last' = [Last("inner", r.ok, r.err, "-", "-")
                  EXCEPT !.ref = r.ref, !.deref = r.deref]
    /\ UNCHANGED << threads, entries, alloc, user_instance, base, lifecycle, godot_ref_count,
                    mut_binder, const_binders, guards, host, overflow_checks,
                    net, dec_at_zero, inst_released, handle_released,
                    pre_swap >>

\* Teardown entry: "host" runs from the host wrapper's destructor, "ext" when
\* extension code releases its last handle.
Teardown(path) ==
    /\ alloc \in {"live", "freed"}
    /\ path = "host" => ~host.alive
    /\ LET t == teardown(lifecycle, user_instance) IN
       /\ lifecycle' = t.lifecycle
       /\ alloc' = IF t.drop THEN "freed" ELSE alloc
       /\ inst_released' = IF t.drop THEN inst_released + 1 ELSE inst_released
       /\ handle_released' = IF t.drop THEN handle_released + 1 ELSE handle_released
       /\ host' = IF t.drop THEN Base_drop(base, host) ELSE host
       /\ last' = [Last("teardown_" \o path, t.ok, t.err, user_instance.state,
                        lifecycle) EXCEPT !.freed = t.drop, !.steps = t.steps]
    /\ UNCHANGED << threads, entries, user_instance, base, godot_ref_count, mut_binder,
                    const_binders, guards, overflow_checks, net,
                    dec_at_zero,
                    pre_swap >>

Next ==
    \/ \E v \in Values, ptr \in {NullPtr, HostId} : Construct(v, ptr)
    \/ \E bt \in Sites : Get(bt)
    \/ \E bt \in Sites : GetMut(bt)
    \/ \E v \in Values : GetInaccessible(v)
    \/ \E i \in 1 .. MaxGuards : Release(i)
    \/ \E v \in Values : Write(v)
    \/ IsBound
    \/ \E l \in {"Alive", "Destroying"} : SetLifecycle(l)
    \/ OnIncRef
    \/ OnDecRef
    \/ HostUnreference
    \/ BaseInner
    \/ \E path \in Paths : Teardown(path)

Spec == Init /\ [][Next]_vars

TypeOK ==
    /\ alloc \in {"none", "live", "freed"}
    /\ user_instance.state \in {"Free", "Shared", "Exclusive", "Inaccessible"}
    /\ user_instance.count \in 0 .. MaxGuards
    /\ godot_ref_count.hi \in 0 .. Half - 1
    /\ godot_ref_count.lo \in 0 .. Half - 1
    /\ lifecycle \in {"Alive", "Destroying"}
    /\ Len(guards) <= MaxGuards
    /\ entries.pc \in [Paths -> {"idle", "observed", "latched", "checked", "done",
                                 "faulted"}]
    /\ entries.first \in Paths \cup {"none"}
\* Single-owner runs in which every borrow is an exclusive one: the calls of
\* Next without get and get_inaccessible.
NextExclusive ==
    \/ \E v \in Values, ptr \in {NullPtr, HostId} : Construct(v, ptr)
    \/ \E bt \in Sites : GetMut(bt)
    \/ \E i \in 1 .. MaxGuards : Release(i)
    \/ \E v \in Values : Write(v)
    \/ IsBound
    \/ \E l \in {"Alive", "Destroying"} : SetLifecycle(l)
    \/ OnIncRef
    \/ OnDecRef
    \/ HostUnreference
    \/ BaseInner
    \/ \E path \in Paths : Teardown(path)

SpecExclusive == Init /\ [][NextExclusive]_vars

\* ------------------------------------------------- shared mode (threads)
\* With the experimental-threads feature the storage uses the blocking cell:
\* borrow() and borrow_mut() do not return an error to another thread's call
\* but hold the caller until the borrow can be granted.  A thread makes one
\* call at a time and holds at most one guard.  Other threads run between
\* the statements of get and get_mut, so each statement that touches the
\* cell or one of the logs is a step of its own.  In these runs `last` is the
\* outcome of the most recent call that handed out no guard: a hook, a
\* set_lifecycle, or a call that panicked.

\* Storage::get after borrow() returned the RefGuard: the capture is pushed
\* under the const_binders lock; a poisoned lock unwinds and drops the guard.
get_push(c, mb, cb, bt) ==
    IF cb.poisoned
    THEN Outcome(FALSE, "PoisonError", RefGuard_drop(c), mb, cb, NoSite, NoGuard)
    ELSE Outcome(TRUE, "None", c, mb, [cb EXCEPT !.val = Append(@, bt)],
                 NoSite, SharedGuard(bt))

\* Storage::get_mut, first statement: one call of the retain closure.  With
\* k captures kept so far, the closure asks is_bound() for the next capture
\* and keeps or removes it.
retain_step(c, log, k) ==
    IF is_bound(c)
    THEN [log |-> log, kept |-> k + 1]
    ELSE [log |-> RemoveAt(log, k + 1), kept |-> k]

\* Storage::get_mut after borrow_mut() returned the MutGuard: the capture is
\* stored under the mut_binder lock; a poisoned lock unwinds and drops the
\* guard.
get_mut_record(c, mb, cb, bt) ==
    IF mb.poisoned
    THEN Outcome(FALSE, "PoisonError", MutGuard_drop(c), mb, cb, NoSite, NoGuard)
    ELSE Outcome(TRUE, "None", c, [mb EXCEPT !.val = bt], cb, NoSite,
                 ExclusiveGuard(bt))

\* A live unit right after Storage::construct(0, base) in a build with
\* overflow checks, threads outside any call.
InitShared ==
    /\ alloc = "live"
    /\ LET st == construct(0, from_sys(HostId).base) IN
         /\ user_instance = st.user_instance
         /\ base = st.base
         /\ lifecycle = st.lifecycle
         /\ godot_ref_count = st.godot_ref_count
         /\ mut_binder = st.mut_binder
         /\ const_binders = st.const_binders
    /\ guards = << >>
    /\ host = [alive |-> TRUE, refcount |-> 1]
    /\ overflow_checks = TRUE
    /\ net = 0
    /\ dec_at_zero = FALSE
    /\ inst_released = 0
    /\ handle_released = 0
    /\ pre_swap = NoVal
    /\ threads = [t \in Threads |-> Idle]
    /\ entries = NoEntries
    /\ last = Last("construct", TRUE, "None", "Free", "Alive")

ThreadsAt(pc) == {t \in Threads : threads[t].pc = pc}

\* Thread t calls get(): borrow() takes the shared borrow, or holds the
\* caller while the cell is Exclusive or Inaccessible.  Calls of get() are
\* started only while the log has room for their capture.
TGet(t, bt) ==
    /\ alloc = "live"
    /\ threads[t].pc = "idle"
    /\ Len(const_binders.val)
         + Cardinality(ThreadsAt("get") \cup ThreadsAt("get_push")) < MaxBinders
    /\ LET r == borrow(user_instance) IN
       /\ user_instance' = r.cell
       /\ threads' = [threads EXCEPT
                        ![t] = [pc |-> IF r.ok THEN "get_push" ELSE "get", bt |-> bt,
                                kept |-> 0]]
    /\ UNCHANGED << entries, alloc, base, lifecycle, godot_ref_count, mut_binder,
                    const_binders, guards, host, overflow_checks, net,
                    dec_at_zero, inst_released, handle_released, pre_swap, last >>

\* Thread t's record after a call of the retain closure: still in the retain
\* while captures are left to look at, at borrow_mut() otherwise.
retaining(bt, r) ==
    IF r.kept < Len(r.log)
    THEN [pc |-> "get_mut_retain", bt |-> bt, kept |-> r.kept]
    ELSE [pc |-> "get_mut", bt |-> bt, kept |-> 0]

\* Thread t calls get_mut(): it takes the const_binders lock (free: no other
\* retain is running) and the retain looks at the first capture.  The lock
\* is held until the retain has looked at every capture; other threads'
\* guard drops, borrows and make_inaccessible go on meanwhile.
TGetMut(t, bt) ==
    /\ alloc = "live"
    /\ threads[t].pc = "idle"
    /\ ThreadsAt("get_mut_retain") = {}
    /\ IF const_binders.poisoned
       THEN /\ last' = Last("get_mut", FALSE, "PoisonError", "-", "-")
            /\ UNCHANGED << threads, entries, const_binders >>
       ELSE /\ LET r == IF const_binders.val = << >>
                        THEN [log |-> << >>, kept |-> 0]
                        ELSE retain_step(user_instance, const_binders.val, 0)
               IN  /\ const_binders' = [const_binders EXCEPT !.val = r.log]
                   /\ threads' = [threads EXCEPT ![t] = retaining(bt, r)]
            /\ UNCHANGED last
    /\ UNCHANGED << entries, alloc, user_instance, base, lifecycle, godot_ref_count,
                    mut_binder, guards, host, overflow_checks, net,
                    dec_at_zero, inst_released, handle_released, pre_swap >>

\* The retain of thread t's get_mut() looks at its next capture; after the
\* last one the const_binders lock is released.
Retain(t) ==
    /\ alloc = "live"
    /\ threads[t].pc = "get_mut_retain"
    /\ LET r == retain_step(user_instance, const_binders.val, threads[t].kept) IN
       /\ const_binders' = [const_binders EXCEPT !.val = r.log]
       /\ threads' = [threads EXCEPT ![t] = retaining(threads[t].bt, r)]
    /\ UNCHANGED << entries, alloc, user_instance, base, lifecycle, godot_ref_count,
                    mut_binder, guards, host, overflow_checks, net,
                    dec_at_zero, inst_released, handle_released, pre_swap, last >>

\* The borrow the call of thread t is waiting for.
acquire(t) ==
    IF threads[t].pc = "get"
    THEN borrow(user_instance)
    ELSE get_mut_acquire(user_instance)

\* borrow() / borrow_mut() of thread t's call takes the borrow and returns.
Acquire(t) ==
    /\ alloc = "live"
    /\ threads[t].pc \in {"get", "get_mut"}
    /\ acquire(t).ok
    /\ user_instance' = acquire(t).cell
    /\ threads' = [threads EXCEPT
                     ![t].pc = IF @ = "get" THEN "get_push" ELSE "get_mut_record"]
    /\ UNCHANGED << entries, alloc, base, lifecycle, godot_ref_count, mut_binder,
                    const_binders, guards, host, overflow_checks, net,
                    dec_at_zero, inst_released, handle_released, pre_swap, last >>

\* The rest of thread t's call once it has the borrow.
finish(t) ==
    IF threads[t].pc = "get_push"
    THEN get_push(user_instance, mut_binder, const_binders, threads[t].bt)
    ELSE get_mut_record(user_instance, mut_binder, const_binders, threads[t].bt)

\* Thread t's call records its capture and returns the guard to the caller.
\* The push of get() waits for the const_binders lock while a retain runs.
Finish(t) ==
    /\ alloc = "live"
    /\ threads[t].pc \in {"get_push", "get_mut_record"}
    /\ threads[t].pc = "get_push" => ThreadsAt("get_mut_retain") = {}
    /\ user_instance' = finish(t).cell
    /\ mut_binder' = finish(t).mut_binder
    /\ const_binders' = finish(t).const_binders
    /\ guards' = IF finish(t).ok THEN Append(guards, finish(t).guard) ELSE guards
    /\ threads' = [threads EXCEPT
                     ![t] = IF finish(t).ok
                            THEN [pc |-> finish(t).guard.kind, bt |-> threads[t].bt,
                                  kept |-> 0]
                            ELSE Idle]
    /\ last' = IF finish(t).ok
               THEN last
               ELSE Last(IF threads[t].pc = "get_push" THEN "get" ELSE "get_mut",
                         FALSE, finish(t).err, "-", "-")
    /\ UNCHANGED << entries, alloc, base, lifecycle, godot_ref_count, host, overflow_checks,
                    net, dec_at_zero, inst_released, handle_released, pre_swap >>

\* Thread t calls get_inaccessible(): make_inaccessible does not wait; the
\* call returns the guard or panics.
TGetInaccessible(t, v) ==
    /\ alloc = "live"
    /\ threads[t].pc = "idle"
    /\ LET o == get_inaccessible(user_instance, mut_binder, const_binders, v) IN
       /\ user_instance' = o.cell
       /\ guards' = IF o.ok THEN Append(guards, o.guard) ELSE guards
       /\ pre_swap' = IF o.ok THEN user_instance.value ELSE pre_swap
       /\ threads' = IF o.ok
                     THEN [threads EXCEPT ![t] = [pc |-> "inaccessible", bt |-> NoSite,
                                                  kept |-> 0]]
                     ELSE threads
       /\ last' = IF o.ok THEN last ELSE Last("get_inaccessible", FALSE, o.err, "-", "-")
    /\ UNCHANGED << entries, alloc, base, lifecycle, godot_ref_count, mut_binder,
                    const_binders, host, overflow_checks, net, dec_at_zero,
                    inst_released, handle_released >>

\* The guard thread t holds.
held(t) ==
    IF threads[t].pc = "shared"
    THEN SharedGuard(threads[t].bt)
    ELSE IF threads[t].pc = "exclusive"
         THEN ExclusiveGuard(threads[t].bt)
         ELSE InaccessibleGuard(pre_swap)

\* Thread t drops its guard.
TRelease(t) ==
    /\ alloc = "live"
    /\ threads[t].pc \in {"shared", "exclusive", "inaccessible"}
    /\ LET i == CHOOSE j \in 1 .. Len(guards) : guards[j] = held(t) IN
       guards' = RemoveAt(guards, i)
    /\ user_instance' = Guard_drop(user_instance, held(t))
    /\ pre_swap' = IF threads[t].pc = "inaccessible" THEN NoVal ELSE pre_swap
    /\ threads' = [threads EXCEPT ![t] = Idle]
    /\ UNCHANGED << entries, alloc, base, lifecycle, godot_ref_count, mut_binder,
                    const_binders, host, overflow_checks, net, dec_at_zero,
                    inst_released, handle_released, last >>

\* The borrow calls of the threads and the release of their guards.
NextBorrows ==
    \/ \E t \in Threads, bt \in Sites : TGet(t, bt)
    \/ \E t \in Threads, bt \in Sites : TGetMut(t, bt)
    \/ \E t \in Threads, v \in Values : TGetInaccessible(t, v)
    \/ \E t \in Threads : Retain(t)
    \/ \E t \in Threads : Acquire(t)
    \/ \E t \in Threads : Finish(t)
    \/ \E t \in Threads : TRelease(t)

\* The host's hooks, run while the threads borrow.  As with the threads'
\* calls, last records a hook only when it panics.
TSetLifecycle(l) ==
    /\ alloc = "live"
    /\ lifecycle' = set_lifecycle(lifecycle, l)
    /\ UNCHANGED << threads, entries, alloc, user_instance, base, godot_ref_count, mut_binder,
                    const_binders, guards, host, overflow_checks, net,
                    dec_at_zero, inst_released, handle_released, pre_swap, last >>

TOnIncRef ==
    /\ alloc = "live"
    /\ net < MaxRefNet
    /\ LET r == on_inc_ref(godot_ref_count, overflow_checks) IN
       /\ godot_ref_count' = r.rc
       /\ net' = IF r.ok THEN net + 1 ELSE net
       /\ last' = IF r.ok THEN last ELSE Last("on_inc_ref", FALSE, r.err, "-", "-")
    /\ UNCHANGED << threads, entries, alloc, user_instance, base, lifecycle, mut_binder,
                    const_binders, guards, host, overflow_checks,
                    dec_at_zero, inst_released, handle_released, pre_swap >>

TOnDecRef ==
    /\ alloc = "live"
    /\ net > 0 - (MaxRefNet + 1)
    /\ LET r == on_dec_ref(godot_ref_count, overflow_checks) IN
       /\ godot_ref_count' = r.rc
       /\ net' = IF r.ok THEN net - 1 ELSE net
       /\ dec_at_zero' = (dec_at_zero \/ godot_ref_count = U32_ZERO)
       /\ last' = IF r.ok THEN last ELSE Last("on_dec_ref", FALSE, r.err, "-", "-")
    /\ UNCHANGED << threads, entries, alloc, user_instance, base, lifecycle, mut_binder,
                    const_binders, guards, host, overflow_checks,
                    inst_released, handle_released, pre_swap >>

NextShared ==
    \/ NextBorrows
    \/ \E l \in {"Alive", "Destroying"} : TSetLifecycle(l)
    \/ TOnIncRef
    \/ TOnDecRef

SpecShared == InitShared /\ [][NextShared]_vars

\* Runs of borrow calls under fair scheduling.  A call waiting in borrow()
\* or borrow_mut() that can go on again and again does go on (strong
\* fairness: "completes when the cell becomes available"); a retain, a log
\* update and a guard's release are not put off forever.  set_lifecycle and the reference-count hooks are
\* left out: they write lifecycle and godot_ref_count only, which no borrow
\* call reads.
SpecSharedFair ==
    /\ InitShared
    /\ [][NextBorrows]_vars
    /\ \A t \in Threads : WF_vars(Retain(t))
    /\ \A t \in Threads : SF_vars(Acquire(t))
    /\ \A t \in Threads : WF_vars(Finish(t))
    /\ \A t \in Threads : WF_vars(TRelease(t))

\* ------------------------------------------- teardown entries, in steps
\* The two entry points run on different threads of a shared-mode build.
\* The latch is `lifecycle: cell::Cell<Lifecycle>`, read by get_lifecycle
\* and written by set_lifecycle, two calls with nothing that makes them one
\* step; each entry is teardown above, one call per step.

\* The entry reads the latch: DoubleTeardown when it is Destroying.
Enter(path) ==
    /\ alloc \in {"live", "freed"}
    /\ path = "host" => ~host.alive
    /\ entries.pc[path] = "idle"
    /\ IF get_lifecycle(lifecycle) = "Destroying"
       THEN /\ entries' = [entries EXCEPT !.pc[path] = "faulted"]
            /\ last' = Last("teardown_" \o path, FALSE, "DoubleTeardown",
                            user_instance.state, lifecycle)
       ELSE /\ entries' = [entries EXCEPT
                             !.pc[path] = "observed",
                             !.first = IF @ = "none" THEN path ELSE @]
            /\ UNCHANGED last
    /\ UNCHANGED << threads, alloc, user_instance, base, lifecycle, godot_ref_count,
                    mut_binder, const_binders, guards, host, overflow_checks,
                    net, dec_at_zero, inst_released, handle_released, pre_swap >>

\* The entry sets the latch.
Latch(path) ==
    /\ entries.pc[path] = "observed"
    /\ lifecycle' = set_lifecycle(lifecycle, "Destroying")
    /\ entries' = [entries EXCEPT !.pc[path] = "latched"]
    /\ UNCHANGED << threads, alloc, user_instance, base, godot_ref_count,
                    mut_binder, const_binders, guards, host, overflow_checks,
                    net, dec_at_zero, inst_released, handle_released, pre_swap,
                    last >>

\* The entry asserts is_bound() == false: DestroyWhileBound otherwise.
Check(path) ==
    /\ entries.pc[path] = "latched"
    /\ IF is_bound(user_instance)
       THEN /\ entries' = [entries EXCEPT !.pc[path] = "faulted"]
            /\ last' = [Last("teardown_" \o path, FALSE, "DestroyWhileBound",
                             user_instance.state, "Alive")
                          EXCEPT !.steps = << "set_destroying", "is_bound" >>]
       ELSE /\ entries' = [entries EXCEPT !.pc[path] = "checked"]
            /\ UNCHANGED last
    /\ UNCHANGED << threads, alloc, user_instance, base, lifecycle, godot_ref_count,
                    mut_binder, const_binders, guards, host, overflow_checks,
                    net, dec_at_zero, inst_released, handle_released, pre_swap >>

\* The entry drops the storage: the instance and the handle are released.
DropStorage(path) ==
    /\ entries.pc[path] = "checked"
    /\ alloc' = "freed"
    /\ inst_released' = inst_released + 1
    /\ handle_released' = handle_released + 1
    /\ host' = Base_drop(base, host)
    /\ entries' = [entries EXCEPT !.pc[path] = "done"]
    /\ last' = [Last("teardown_" \o path, TRUE, "None", user_instance.state, "Alive")
                  EXCEPT !.freed = TRUE,
                         !.steps = << "set_destroying", "is_bound" >> \o drop_steps]
    /\ UNCHANGED << threads, user_instance, base, lifecycle, godot_ref_count,
                    mut_binder, const_binders, guards, overflow_checks, net,
                    dec_at_zero, pre_swap >>

\* The host lets go of the wrapper, threads take and drop shared guards, and
\* the two entry points run.
NextTeardown ==
    \/ HostUnreference
    \/ \E t \in Threads, bt \in Sites : TGet(t, bt)
    \/ \E t \in Threads : Finish(t)
    \/ \E t \in Threads : TRelease(t)
    \/ \E path \in Paths : Enter(path)
    \/ \E path \in Paths : Latch(path)
    \/ \E path \in Paths : Check(path)
    \/ \E path \in Paths : DropStorage(path)

SpecTeardown == InitShared /\ [][NextTeardown]_vars

\* ---------------------------------------------------------------- claims
GuardsOf(kinds) == {i \in 1 .. Len(guards) : guards[i].kind \in kinds}
Teardowns == {"teardown_" \o p : p \in Paths}

\* C1: at every reachable state at most one exclusive-class guard (exclusive
\* or inaccessible) is outstanding, and no shared guard is outstanding
\* together with an exclusive-class guard.
C1_ExclusiveClassAlone ==
    /\ Cardinality(GuardsOf({"exclusive", "inaccessible"})) <= 1
    /\ GuardsOf({"exclusive", "inaccessible"}) # {} => GuardsOf({"shared"}) = {}

\* an exclusive-class guard is out and a nested acquire has just been refused
C1_Witness ==
    /\ GuardsOf({"exclusive", "inaccessible"}) # {}
    /\ last.op \in {"get", "get_mut", "get_inaccessible"}
    /\ ~last.ok

\* C2: get_exclusive on a unit with no guard out succeeds (the first call on
\* a fresh unit with shadow count 1, and the retry after the outer guard was
\* released); a nested get_exclusive while the exclusive guard is held fails,
\* and its borrow-conflict fault names the outstanding exclusive holder.
C2_NestedExclusiveThenRetry ==
    last.op = "get_mut" =>
        /\ last.pre = "Free" => last.ok
        /\ last.pre = "Exclusive" =>
              /\ ~last.ok
              /\ last.err = "AlreadyBorrowed" =>
                    \E i \in GuardsOf({"exclusive"}) : last.shown = guards[i].site

\* C3: get_shared while shared guards (and no exclusive-class guard) are out
\* succeeds; get_exclusive while a shared guard is out fails and grants no
\* guard.
C3_SharedAfterShared ==
    /\ (last.op = "get" /\ last.pre = "Shared") => last.ok
    /\ (last.op = "get_mut" /\ last.pre = "Shared") =>
          /\ ~last.ok
          /\ GuardsOf({"exclusive"}) = {}

\* C4: releasing a shared guard decrements the shared count (to Free when it
\* was the last), releasing an exclusive or inaccessible guard goes to Free,
\* no step goes between Shared and Exclusive/Inaccessible without passing
\* through Free, and the get_exclusive that follows the release of the last
\* shared guard succeeds.
C4_ReleaseStep ==
    /\ last'.op = "release_shared" =>
          IF user_instance.count > 1
          THEN /\ user_instance'.state = "Shared"
               /\ user_instance'.count = user_instance.count - 1
          ELSE user_instance'.state = "Free"
    /\ last'.op \in {"release_exclusive", "release_inaccessible"} =>
          user_instance'.state = "Free"
    /\ user_instance'.state # user_instance.state =>
          "Free" \in {user_instance.state, user_instance'.state}
    /\ (last.op = "release_shared" /\ user_instance.state = "Free"
          /\ last'.op = "get_mut") => last'.ok

\* C4, over every step of a run
C4_ReleaseRestores == [][C4_ReleaseStep]_vars

\* C5: while an inaccessible guard is held the cell is Inaccessible; once it
\* is released the cell is Free and holds exactly the value it held before
\* get_inaccessible, whatever the replacement was.
C5_InaccessibleRoundTrip ==
    /\ GuardsOf({"inaccessible"}) # {} => user_instance.state = "Inaccessible"
    /\ last.op = "release_inaccessible" =>
          /\ user_instance.state = "Free"
          /\ user_instance.value = last.val
          /\ last.val \in Values

\* an inaccessible guard was released whose replacement differed from the original
C5_Witness ==
    /\ last.op = "release_inaccessible"
    /\ last.repl # last.val
    /\ user_instance.value = last.val
\* C6: a teardown entered on a unit with no guard out completes without
\* fault and releases the instance; a teardown entered while a guard is out
\* raises DestroyWhileBound and releases nothing.
C6_TeardownAsClaimed ==
    last.op \in Teardowns =>
        /\ last.pre = "Free" =>
              /\ last.ok
              /\ last.freed
              /\ inst_released = 1
        /\ last.pre # "Free" =>
              /\ ~last.ok
              /\ last.err = "DestroyWhileBound"
              /\ ~last.freed
              /\ inst_released = 0

\* C6, amended: a teardown entered on an Alive unit with no guard out
\* completes without fault and releases the instance; entered on an Alive
\* unit while a guard is out it raises DestroyWhileBound and releases
\* nothing; entered on a unit that is already Destroying it raises
\* DoubleTeardown and releases nothing, whether or not a guard is out.
C6_TeardownBoundCheck ==
    last.op \in Teardowns =>
        /\ (last.pre = "Free" /\ last.life = "Alive") =>
              /\ last.ok
              /\ last.freed
              /\ alloc = "freed"
              /\ inst_released = 1
        /\ last.pre # "Free" =>
              /\ ~last.ok
              /\ ~last.freed
              /\ alloc = "live"
              /\ inst_released = 0
              /\ guards # << >>
              /\ last.life = "Alive" => last.err = "DestroyWhileBound"
        /\ last.life = "Destroying" =>
              /\ ~last.ok
              /\ last.err = "DoubleTeardown"
              /\ ~last.freed

\* a teardown was refused because a guard was out
C6_Witness ==
    /\ last.op \in Teardowns
    /\ last.err = "DestroyWhileBound"
    /\ guards # << >>

\* C7: whatever the order in which the two entry points run, the instance
\* and the handle are released exactly once, by the entry that first
\* observed Alive; an entry that finds the unit Destroying is a
\* DoubleTeardown fault and releases nothing.
C7_ExactlyOnce ==
    /\ inst_released <= 1
    /\ handle_released <= 1
    /\ \A p \in Paths : entries.pc[p] = "done" => entries.first = p
    /\ \A p \in Paths :
          (entries.first = p /\ entries.pc[p] \in {"done", "faulted"})
              => (inst_released = 1 /\ handle_released = 1)
    /\ (last.op \in Teardowns /\ last.life = "Destroying") =>
          /\ last.err = "DoubleTeardown"
          /\ ~last.freed

\* C8: the shadow count is 1 at construction and, as long as on_dec_ref was
\* never called at count 0, equals 1 + on_inc_ref calls - on_dec_ref calls.
C8_ShadowCount ==
    /\ (last.op = "construct" /\ last.ok) => godot_ref_count = ToU32(1)
    /\ (alloc # "none" /\ ~dec_at_zero) => godot_ref_count = ToU32(1 + net)

\* no call other than on_inc_ref / on_dec_ref (and construct) changes the count
C8_FrameStep ==
    last'.op \notin {"on_inc_ref", "on_dec_ref", "construct"} =>
        godot_ref_count' = godot_ref_count

\* C8: the count follows the hooks and nothing else moves it
C8_ShadowCountTracksHooks == []C8_ShadowCount /\ [][C8_FrameStep]_vars

\* on_inc_ref then on_dec_ref brought the count back to 1, with a guard out
C8_Witness ==
    /\ last.op = "on_dec_ref"
    /\ last.ok
    /\ net = 0
    /\ ~dec_at_zero
    /\ godot_ref_count = ToU32(1)
    /\ guards # << >>

\* C9: constructing the handle and releasing it at teardown leave the host
\* object's reference count (and liveness) as they were.
C9_HandleStep ==
    last'.op \in ({"construct"} \cup Teardowns) => host' = host

\* C9, over every step of a run
C9_HandleNeverOwns == [][C9_HandleStep]_vars

\* the handle was built and released again while the host still held its reference
C9_Witness ==
    /\ alloc = "freed"
    /\ handle_released = 1
    /\ host = [alive |-> TRUE, refcount |-> 1]

\* C10: an access through the handle checks the host's liveness: with the
\* host object gone it fails with Expired without dereferencing the cached
\* identity, with the host alive it yields that same host object.
C10_AccessRevalidates ==
    last.op = "inner" =>
        IF host.alive
        THEN /\ last.ok
             /\ last.ref = HostId
             /\ last.ref = base.obj.token
        ELSE /\ ~last.ok
             /\ last.err = "Expired"
             /\ ~last.deref

\* an access was refused because the host object was gone
C10_Witness ==
    /\ last.op = "inner"
    /\ last.err = "Expired"
    /\ ~host.alive

\* C12: is_bound() answers true exactly when the borrow state is not Free,
\* and the borrow state is not Free exactly when some guard is outstanding;
\* so is_bound() = false means no reference to the instance data exists.
C12_IsBoundIffBorrowed ==
    /\ last.op = "is_bound" => (last.ok = (user_instance.state # "Free"))
    /\ alloc = "live" => ((user_instance.state # "Free") = (guards # << >>))
    /\ (last.op = "is_bound" /\ ~last.ok) => guards = << >>

\* is_bound() answered true while a guard was out
C12_Witness ==
    /\ last.op = "is_bound"
    /\ last.ok
    /\ guards # << >>

\* C13: a get_shared / get_exclusive / get_inaccessible call made while the
\* lifecycle is Destroying is not granted a guard.
C13_NoBorrowWhileDestroying ==
    (last.op \in {"get", "get_mut", "get_inaccessible"} /\ last.life = "Destroying")
        => ~last.ok

\* C14: the lifecycle never leaves Destroying, and a set_lifecycle call made
\* on a Destroying unit leaves it Destroying.
C14_LifecycleStep == lifecycle = "Destroying" => lifecycle' = "Destroying"

\* C14, over every step of a run
C14_LifecycleMonotone == [][C14_LifecycleStep]_vars

\* C18: const_binders holds one capture per outstanding shared guard (the
\* sites of those guards, none of a released guard), and mut_binder holds a
\* capture exactly when an exclusive guard is outstanding.
C18_LogMatchesActiveBorrows ==
    alloc = "live" =>
        /\ Len(const_binders.val) = Cardinality(GuardsOf({"shared"}))
        /\ (mut_binder.val # NoSite) = (GuardsOf({"exclusive"}) # {})

\* C19: a get_shared / get_exclusive call that fails leaves the borrow state,
\* the instance value, the lifecycle, the shadow count, the guards and both
\* diagnostics logs with their locks (unpoisoned) as they were.
C19_FailedCallStep ==
    (last'.op \in {"get", "get_mut"} /\ ~last'.ok) =>
        /\ UNCHANGED << user_instance, lifecycle, godot_ref_count, guards,
                        mut_binder, const_binders >>
        /\ ~mut_binder'.poisoned
        /\ ~const_binders'.poisoned

\* C19, over every step of a run
C19_FailedCallLeavesUnitIntact == [][C19_FailedCallStep]_vars

\* C20: on_inc_ref and on_dec_ref neither fault nor wrap: on_dec_ref does
\* not turn 0 into 2^32 - 1 and on_inc_ref does not turn 2^32 - 1 into 0.
C20_ShadowCountNoWrap ==
    /\ last.op = "on_dec_ref" => (last.ok /\ godot_ref_count # U32_MAX)
    /\ last.op = "on_inc_ref" => (last.ok /\ godot_ref_count # U32_ZERO)

\* C16: a step that is an on_inc_ref() or on_dec_ref() call changes only the
\* shadow count: lifecycle, borrow state, instance value, guards, both
\* diagnostics logs, the handle, the host object and the allocation are as
\* before, also when the count reaches zero (no teardown is started).
C16_HookStep ==
    last'.op \in {"on_inc_ref", "on_dec_ref"} =>
        UNCHANGED << lifecycle, user_instance, mut_binder, const_binders,
                     guards, base, host, alloc, inst_released,
                     handle_released >>

\* C16, over every step of a run
C16_HooksOnlyCount == [][C16_HookStep]_vars

\* on_dec_ref() brought the count to zero on a live, Alive unit
C16_Witness ==
    /\ last.op = "on_dec_ref"
    /\ last.ok
    /\ godot_ref_count = U32_ZERO
    /\ lifecycle = "Alive"
    /\ alloc = "live"

\* position of step x in the step list s, 0 when it did not happen
StepAt(s, x) ==
    IF \E i \in 1 .. Len(s) : s[i] = x
    THEN CHOOSE i \in 1 .. Len(s) : s[i] = x
    ELSE 0

\* C15: on both teardown paths an entry on an Alive unit sets the lifecycle
\* to Destroying before it inspects the borrow state; it releases something
\* only after is_bound() answered false; it releases the instance, then the
\* handle, and the lifecycle field is released after the instance, so it
\* still reads Destroying while the instance is being released.
C15_TeardownOrder ==
    (last.op \in Teardowns /\ last.life = "Alive") =>
        /\ lifecycle = "Destroying"
        /\ StepAt(last.steps, "set_destroying") = 1
        /\ StepAt(last.steps, "is_bound") = 2
        /\ last.freed = (last.pre = "Free")
        /\ ~last.freed => Len(last.steps) = 2
        /\ last.freed =>
              /\ StepAt(last.steps, "drop_user_instance") = 3
              /\ StepAt(last.steps, "drop_base") = 4
              /\ StepAt(last.steps, "drop_lifecycle") > StepAt(last.steps, "drop_user_instance")

\* a teardown by the host's destructor released the instance and the handle
C15_Witness ==
    /\ last.op = "teardown_host"
    /\ last.freed
    /\ Len(last.steps) = 8
    /\ lifecycle = "Destroying"

\* threads that have a borrow of the cell: their call took it or they hold
\* the guard
Borrowers(pcs) == UNION {ThreadsAt(pc) : pc \in pcs}

C11_CellState ==
    /\ user_instance.count = Cardinality(Borrowers({"get_push", "shared"}))
    /\ \A t \in Borrowers({"get_mut_record", "exclusive"}) :
          /\ user_instance.state = "Exclusive"
          /\ Borrowers({"get_push", "shared", "get_mut_record", "exclusive",
                        "inaccessible"}) = {t}
    /\ \A t \in ThreadsAt("get") :
          user_instance.state \in {"Free", "Shared"} => ENABLED Acquire(t)
    /\ \A t \in ThreadsAt("get_mut") :
          /\ Borrowers({"get_push", "shared"}) # {} => ~ENABLED Acquire(t)
          /\ user_instance.state = "Free" => ENABLED Acquire(t)
    /\ \A t \in ThreadsAt("get_mut_record") : ENABLED Finish(t)
    /\ \A t \in ThreadsAt("get_push") :
          ThreadsAt("get_mut_retain") = {} => ENABLED Finish(t)
    /\ Cardinality(ThreadsAt("get_mut_retain")) <= 1
    /\ \A t \in ThreadsAt("get_mut_retain") : ENABLED Retain(t)

C11_CallStep ==
    \A t \in Threads :
        /\ (threads[t].pc = "idle" /\ threads'[t].pc = "get")
              => user_instance.state \in {"Exclusive", "Inaccessible"}
        /\ (threads[t].pc = "get_mut" /\ threads'[t].pc = "get_mut_record")
              => user_instance.state = "Free"

\* C11 (shared mode): a get() made while the cell is Free or Shared takes
\* its borrow in the calling step and can return (its push waits at most
\* for a retain that is running, which can always go on), so threads hold
\* shared guards together; a get_mut() does not get past borrow_mut() while a
\* shared borrow is out, an exclusive borrow is never out together with
\* another borrow, and a get_mut() waiting in borrow_mut() can go on as soon
\* as the cell is Free.
C11_SharedTogetherExclusiveWaits == []C11_CellState /\ [][C11_CallStep]_vars

\* two threads hold shared guards while a third waits in get_mut()
C11_Witness ==
    /\ Cardinality(ThreadsAt("shared")) = 2
    /\ ThreadsAt("get_mut") # {}
    /\ user_instance.count = 2

====
